---- MODULE Spec2Model ----
(***************************************************************************)
(* Model of extract_schedule_a1_from_pdf (src/app.py): the line-based      *)
(* contribution-record parser, its page gating, its de-duplication and its *)
(* error path.                                                             *)
(*                                                                         *)
(* A Python str is a sequence of one-character strings, so that the        *)
(* regular expressions and the str methods of the source are computed      *)
(* character by character.  A page text is the sequence of its raw lines   *)
(* (the text split at "\n"); the empty text is the empty sequence.         *)
(***************************************************************************)
EXTENDS Integers, Sequences, FiniteSets, TLC

(***************************************************************************)
(* Character classes of Python's re and str.                               *)
(***************************************************************************)
UpperSeq == <<"A","B","C","D","E","F","G","H","I","J","K","L","M","N","O","P","Q","R","S","T","U","V","W","X","Y","Z">>
LowerSeq == <<"a","b","c","d","e","f","g","h","i","j","k","l","m","n","o","p","q","r","s","t","u","v","w","x","y","z">>
Upper == {UpperSeq[k] : k \in DOMAIN UpperSeq}
Lower == {LowerSeq[k] : k \in DOMAIN LowerSeq}
Alpha == Upper \cup Lower
Digit == {"0", "1", "2", "3", "4", "5", "6", "7", "8", "9"}
\* \s and the characters str.strip() and str.split() treat as whitespace;
\* "\n" never occurs inside a line.
Space == {" ", "\t", "\r", "\f"}
AlphaSpace == Alpha \cup Space
DigitComma == Digit \cup {","}

\* Python's None and a present value, as a sequence of length 0 or 1
None == <<>>
Some(x) == <<x>>
NoData == <<"N","o"," ","D","a","t","a">>

Max(S) == CHOOSE x \in S : \A y \in S : y <= x
Min(S) == CHOOSE x \in S : \A y \in S : x <= y

(***************************************************************************)
(* str helpers.                                                            *)
(***************************************************************************)
At(s, p, C) == p >= 1 /\ p <= Len(s) /\ s[p] \in C

\* first position >= p whose character is not in C (Len(s) + 1 if none)
RECURSIVE RunEnd(_, _, _)
RunEnd(s, p, C) ==
    IF p > Len(s) THEN p
    ELSE IF s[p] \in C THEN RunEnd(s, p + 1, C) ELSE p

\* first position >= p whose character is in C (Len(s) + 1 if none)
RECURSIVE RunEndNot(_, _, _)
RunEndNot(s, p, C) ==
    IF p > Len(s) THEN p
    ELSE IF s[p] \notin C THEN RunEndNot(s, p + 1, C) ELSE p

\* last position <= p whose character is not whitespace (0 if none)
RECURSIVE LastNonSpace(_, _)
LastNonSpace(s, p) ==
    IF p = 0 THEN 0
    ELSE IF s[p] \in Space THEN LastNonSpace(s, p - 1) ELSE p

From(s, p) == IF p > Len(s) THEN <<>> ELSE SubSeq(s, p, Len(s))
Upto(s, p) == IF p < 1 THEN <<>> ELSE SubSeq(s, 1, p)

StartsAt(s, p, pat) ==
    /\ p + Len(pat) - 1 <= Len(s)
    /\ \A k \in 1..Len(pat) : s[p + k - 1] = pat[k]

\* str.find from position p, 1-based; 0 when absent
RECURSIVE Find(_, _, _)
Find(s, pat, p) ==
    IF p + Len(pat) - 1 > Len(s) THEN 0
    ELSE IF StartsAt(s, p, pat) THEN p ELSE Find(s, pat, p + 1)

\* pat in s
Contains(s, pat) == Find(s, pat, 1) # 0

str_strip(s) ==
    LET a == RunEnd(s, 1, Space)
        b == LastNonSpace(s, Len(s))
    IN  IF a > Len(s) THEN <<>> ELSE SubSeq(s, a, b)

str_lower(s) ==
    [k \in 1..Len(s) |->
        IF s[k] \in Upper
        THEN LowerSeq[CHOOSE u \in DOMAIN UpperSeq : UpperSeq[u] = s[k]]
        ELSE s[k]]

\* s.replace(pat, "")
RECURSIVE str_remove(_, _)
str_remove(s, pat) ==
    LET p == Find(s, pat, 1)
    IN  IF p = 0 THEN s
        ELSE Upto(s, p - 1) \o str_remove(From(s, p + Len(pat)), pat)

\* s.split(c) for a one-character separator
RECURSIVE str_split_on(_, _)
str_split_on(s, c) ==
    LET p == RunEndNot(s, 1, {c})
    IN  IF p > Len(s) THEN <<s>>
        ELSE <<Upto(s, p - 1)>> \o str_split_on(From(s, p + 1), c)

\* s.split()
RECURSIVE str_split(_)
str_split(s) ==
    LET a == RunEnd(s, 1, Space)
        b == RunEndNot(s, a, Space)
    IN  IF a > Len(s) THEN <<>>
        ELSE <<SubSeq(s, a, b - 1)>> \o str_split(From(s, b))

\* s.split(maxsplit=1)
str_split_max1(s) ==
    LET a == RunEnd(s, 1, Space)
        b == RunEndNot(s, a, Space)
        c == RunEnd(s, b, Space)
    IN  IF a > Len(s) THEN <<>>
        ELSE IF c > Len(s) THEN <<SubSeq(s, a, b - 1)>>
        ELSE <<SubSeq(s, a, b - 1), From(s, c)>>

\* " ".join(ls)
RECURSIVE str_join(_)
str_join(ls) ==
    IF Len(ls) = 0 THEN <<>>
    ELSE IF Len(ls) = 1 THEN ls[1]
    ELSE ls[1] \o <<" ">> \o str_join(From(ls, 2))

(***************************************************************************)
(* The regular expressions of the source.                                  *)
(***************************************************************************)
\* \d{2}/\d{2}/\d{4} matched at position p
DateAt(s, p) ==
    /\ p >= 1
    /\ p + 9 <= Len(s)
    /\ \A k \in {0, 1, 3, 4, 6, 7, 8, 9} : s[p + k] \in Digit
    /\ s[p + 2] = "/"
    /\ s[p + 5] = "/"

\* \d+\.\d{2} with its "." at position d + 1
DecimalAt(s, d) ==
    /\ At(s, d, Digit)
    /\ At(s, d + 1, {"."})
    /\ At(s, d + 2, Digit)
    /\ At(s, d + 3, Digit)

\* re.search(r'\d{2}/\d{2}/\d{4}', s)
has_date(s) == \E p \in 1..Len(s) : DateAt(s, p)

\* re.search(r'\d+\.\d{2}', s)
has_amount(s) == \E d \in 1..Len(s) : DecimalAt(s, d)

\* re.search(r'\d{2}/\d{2}/\d{4}\s+.*?\d+\.\d{2}', s): the date+amount shape
next_date_shape(s) ==
    \E p \in 1..Len(s) :
        /\ DateAt(s, p)
        /\ At(s, p + 10, Space)
        /\ \E d \in (p + 11)..Len(s) : DecimalAt(s, d)

\* ([\d,]+\.\d{2}) matched at position a: the position of its last character, or 0
AmountEnd(s, a) ==
    LET r == RunEnd(s, a, DigitComma)
    IN  IF r > a /\ At(s, r, {"."}) /\ At(s, r + 1, Digit) /\ At(s, r + 2, Digit)
        THEN r + 2 ELSE 0

\* \s+\$? matched at position t: the position where the amount starts, or 0
AmountStart(s, t) ==
    LET u == RunEnd(s, t, Space)
    IN  IF ~At(s, t, Space) THEN 0
        ELSE IF At(s, u, {"$"}) THEN u + 1 ELSE u

NoMatch == [ok |-> FALSE, g1 |-> <<>>, g2 |-> <<>>, g3 |-> <<>>]

\* (\d{2}/\d{2}/\d{4})\s+(.+?)\s+\$?([\d,]+\.\d{2}) matched at position p.
\* The first \s+ is greedy (the name starts as late as a match allows), the
\* name is lazy (it ends as early as a match allows).
AnchorAt(s, p) ==
    LET ws == RunEnd(s, p + 10, Space)
        ends(ns) == {e \in ns..Len(s) :
                        AmountStart(s, e + 1) # 0
                        /\ AmountEnd(s, AmountStart(s, e + 1)) # 0}
        starts == {ns \in (p + 11)..ws : ends(ns) # {}}
    IN  IF DateAt(s, p) /\ At(s, p + 10, Space) /\ starts # {}
        THEN LET ns == Max(starts)
                 e == Min(ends(ns))
                 a == AmountStart(s, e + 1)
             IN  [ok |-> TRUE,
                  g1 |-> SubSeq(s, p, p + 9),
                  g2 |-> SubSeq(s, ns, e),
                  g3 |-> SubSeq(s, a, AmountEnd(s, a))]
        ELSE NoMatch

\* date_match = re.search(r'(\d{2}/\d{2}/\d{4})\s+(.+?)\s+\$?([\d,]+\.\d{2})', line)
date_match(s) ==
    LET ps == {p \in 1..Len(s) : AnchorAt(s, p).ok}
    IN  IF ps = {} THEN NoMatch ELSE AnchorAt(s, Min(ps))

\* re.sub(r'\(ID#:.*?\)', '', name)
RECURSIVE sub_id(_)
sub_id(s) ==
    LET p == Find(s, <<"(","I","D","#",":">>, 1)
        q == IF p = 0 THEN 0 ELSE Find(s, <<")">>, p + 5)
    IN  IF q = 0 THEN s
        ELSE Upto(s, p - 1) \o sub_id(From(s, q + 1))

\* ',' in s and re.search(r'[A-Z]{2}\s+\d', s)
addr_pattern1(s) ==
    /\ Contains(s, <<",">>)
    /\ \E p \in 1..Len(s) :
          /\ At(s, p, Upper)
          /\ At(s, p + 1, Upper)
          /\ At(s, p + 2, Space)
          /\ At(s, RunEnd(s, p + 2, Space), Digit)

\* re.match(r'^\d+\s+[A-Za-z]', s)
addr_pattern2(s) ==
    LET d == RunEnd(s, 1, Digit)
        w == RunEnd(s, d, Space)
    IN  d > 1 /\ w > d /\ At(s, w, Alpha)

\* re.match(r'^[A-Za-z\s]+,\s*[A-Z]{2}$', s)
addr_pattern3(s) ==
    LET c == RunEnd(s, 1, AlphaSpace)
        u == RunEnd(s, c + 1, Space)
    IN  /\ c > 1
        /\ At(s, c, {","})
        /\ At(s, u, Upper)
        /\ At(s, u + 1, Upper)
        /\ u + 1 = Len(s)

\* re.match(r'^[A-Z]{2}\s+\d{5}', s)
addr_pattern4(s) ==
    LET d == RunEnd(s, 3, Space)
    IN  /\ At(s, 1, Upper)
        /\ At(s, 2, Upper)
        /\ d > 3
        /\ \A k \in 0..4 : At(s, d + k, Digit)

\* ([A-Za-z\s]+),\s*([A-Z]{2})\s*(\d{5}(?:-\d{4})?) matched with its "," at c
CszAt(s, c) ==
    LET b == RunEnd(s, c + 1, Space)
        z == RunEnd(s, b + 2, Space)
        ext == /\ At(s, z + 5, {"-"})
               /\ \A k \in 6..9 : At(s, z + k, Digit)
    IN  IF /\ At(s, c, {","})
           /\ At(s, c - 1, AlphaSpace)
           /\ At(s, b, Upper)
           /\ At(s, b + 1, Upper)
           /\ \A k \in 0..4 : At(s, z + k, Digit)
        THEN [ok |-> TRUE,
              g1 |-> SubSeq(s, Min({p \in 1..(c - 1) :
                                       \A k \in p..(c - 1) : s[k] \in AlphaSpace}),
                            c - 1),
              g2 |-> SubSeq(s, b, b + 1),
              g3 |-> SubSeq(s, z, IF ext THEN z + 9 ELSE z + 4)]
        ELSE NoMatch

\* addr_match = re.search(r'([A-Za-z\s]+),\s*([A-Z]{2})\s*(\d{5}(?:-\d{4})?)', address)
addr_match(s) ==
    LET cs == {c \in 1..Len(s) : CszAt(s, c).ok}
    IN  IF cs = {} THEN NoMatch ELSE CszAt(s, Min(cs))

\* re.match(r'^\d+\.\d+$', s)
page_number(s) ==
    LET d == RunEnd(s, 1, Digit)
        e == RunEnd(s, d + 1, Digit)
    IN  d > 1 /\ At(s, d, {"."}) /\ e > d + 1 /\ e = Len(s) + 1

\* re.match(r'^Sch:.*Rpt:', s)
report_stamp(s) == StartsAt(s, 1, <<"S","c","h",":">>) /\ Find(s, <<"R","p","t",":">>, 5) # 0

\* re.match(r'^\d+ of \d+$', s)
paging(s) ==
    LET d == RunEnd(s, 1, Digit)
        e == RunEnd(s, d + 4, Digit)
    IN  d > 1 /\ StartsAt(s, d, <<" ","o","f"," ">>) /\ e > d + 4 /\ e = Len(s) + 1

(***************************************************************************)
(* Line classification.                                                    *)
(***************************************************************************)
FOOTER_PATTERNS == <<
    <<"p","r","o","v","i","d","e","d"," ","b","y"," ","T","e","x","a","s"," ","E","t","h","i","c","s"," ","C","o","m","m","i","s","s","i","o","n">>,
    <<"w","w","w",".","e","t","h","i","c","s",".","s","t","a","t","e",".","t","x",".","u","s">>,
    <<"V","e","r","s","i","o","n"," ","V","1",".","1">>,
    <<"F","o","r","m","s"," ","p","r","o","v","i","d","e","d"," ","b","y">>,
    <<"T","e","x","a","s"," ","E","t","h","i","c","s"," ","C","o","m","m","i","s","s","i","o","n">> >>

HEADER_PATTERNS == <<
    <<"F","u","l","l"," ","n","a","m","e"," ","o","f"," ","c","o","n","t","r","i","b","u","t","o","r">>,
    <<"o","u","t","-","o","f","-","s","t","a","t","e"," ","P","A","C">>,
    <<"I","D","#",":","_","_","_","_","_","_","_","_","_","_","_","_","_","_","_","_","_","_","_","_","_","_","_","_","_">>,
    <<"A","m","o","u","n","t"," ","o","f"," ","C","o","n","t","r","i","b","u","t","i","o","n"," ","(","$",")">>,
    <<"D","a","t","e">>,
    <<"C","o","n","t","r","i","b","u","t","o","r"," ","a","d","d","r","e","s","s">>,
    <<"P","r","i","n","c","i","p","a","l"," ","o","c","c","u","p","a","t","i","o","n">>,
    <<"J","o","b"," ","t","i","t","l","e">>,
    <<"S","e","e"," ","I","n","s","t","r","u","c","t","i","o","n","s">>,
    <<"E","m","p","l","o","y","e","r">>,
    <<"S","C","H","E","D","U","L","E">>,
    <<"M","O","N","E","T","A","R","Y"," ","P","O","L","I","T","I","C","A","L"," ","C","O","N","T","R","I","B","U","T","I","O","N","S">> >>

is_footer_text(text) ==
    /\ text # <<>>
    /\ \E k \in DOMAIN FOOTER_PATTERNS :
          Contains(str_lower(text), str_lower(FOOTER_PATTERNS[k]))

is_header_text(text) ==
    /\ text # <<>>
    /\ \E k \in DOMAIN HEADER_PATTERNS : Contains(text, HEADER_PATTERNS[k])

should_skip_line(text) ==
    \/ text = <<>>
    \/ str_strip(text) = <<>>
    \/ is_footer_text(text)
    \/ is_header_text(text)
    \/ page_number(text)
    \/ report_stamp(text)
    \/ paging(text)
    \/ addr_pattern2(text)
    \/ addr_pattern3(text)
    \/ addr_pattern4(text)

\* is_address_line after the four pattern tests of the address loop
is_address_line(test_line) ==
    \/ addr_pattern1(test_line)
    \/ addr_pattern2(test_line)
    \/ addr_pattern3(test_line)
    \/ addr_pattern4(test_line)

(***************************************************************************)
(* The lines the modelled documents are made of.                           *)
(***************************************************************************)
L_Marker == <<"S","c","h","e","d","u","l","e"," ","A","1">>
L_Header == <<"M","O","N","E","T","A","R","Y"," ","P","O","L","I","T","I","C","A","L"," ","C","O","N","T","R","I","B","U","T","I","O","N","S">>
L_Anchor == <<"0","1","/","1","5","/","2","0","2","4"," ","J","o","h","n"," ","S","m","i","t","h"," ","$","5","0","0",".","0","0">>
L_AnchorId == <<"0","1","/","1","5","/","2","0","2","4"," ","(","I","D","#",":"," ","5",")"," ","$","5","0","0",".","0","0">>
L_Anchor2 == <<"0","2","/","0","1","/","2","0","2","4"," ","A","n","n"," ","L","e","e"," ","(","I","D","#",":"," ","7",")"," ","2","5",".","0","0">>
L_Bare == <<"0","1","/","1","5","/","2","0","2","4"," ","5","0","0",".","0","0">>
L_AnchorComma == <<"0","3","/","0","3","/","2","0","2","4"," ","B","o","b"," ","R","a","y"," ","5",",",".","0","0">>
L_Street == <<"1","2","3"," ","M","a","i","n"," ","S","t">>
L_CityStateZip == <<"H","o","u","s","t","o","n",","," ","T","X"," ","7","7","0","0","2">>
L_StateOnly == <<","," ","T","X"," ","7">>
L_OccEmp == <<"A","t","t","o","r","n","e","y"," ","S","e","l","f","E","m","p","l","o","y","e","d">>
L_Engineer == <<"E","n","g","i","n","e","e","r">>
L_Teacher == <<"T","e","a","c","h","e","r">>
L_ISD == <<"I","S","D"," ","A","u","s","t","i","n">>
L_Parens == <<"(",")">>
L_Tab == <<"C","l","e","r","k","\t","C","i","t","y">>
L_PageNo == <<"1",".","0">>

Vocabulary ==
    {L_Marker, L_Header, L_Anchor, L_AnchorId, L_Anchor2, L_Bare, L_Street,
     L_CityStateZip, L_StateOnly, L_OccEmp, L_Engineer, L_Teacher, L_ISD,
     L_Parens, L_Tab, L_PageNo, L_AnchorComma}

\* The classifications of the vocabulary's lines, computed once.
Anchor == [l \in Vocabulary |-> date_match(l)]
Shape == [l \in Vocabulary |-> next_date_shape(l)]
Skip == [l \in Vocabulary |-> should_skip_line(l)]
AddressLine == [l \in Vocabulary |-> is_address_line(l)]
DateAndAmount == [l \in Vocabulary |-> has_date(l) /\ has_amount(l)]
Pattern1 == [l \in Vocabulary |-> addr_pattern1(l)]

(***************************************************************************)
(* One iteration of the scan loop at an anchor line.  i and every line     *)
(* index are 0-based as in the source; Line(lines, k) is lines[k].         *)
(***************************************************************************)
Line(lines, k) == lines[k + 1]
min(a, b) == IF a <= b THEN a ELSE b
max(a, b) == IF a >= b THEN a ELSE b
Range(f) == {f[k] : k \in DOMAIN f}
Lines(lines, idx) == [k \in DOMAIN idx |-> Line(lines, idx[k])]

max_address_lines == 5

\* for j in range(1, max_address_lines + 1): the indices of address_lines
RECURSIVE address_loop(_, _, _, _)
address_loop(lines, i, j, acc) ==
    IF j > max_address_lines \/ i + j >= Len(lines) THEN acc
    ELSE LET test_line == Line(lines, i + j)
         IN  IF str_strip(test_line) = <<>>
             THEN IF acc # <<>> THEN acc
                  ELSE address_loop(lines, i, j + 1, acc)
             ELSE IF AddressLine[test_line]
             THEN address_loop(lines, i, j + 1, Append(acc, i + j))
             ELSE IF acc # <<>> THEN acc
             ELSE address_loop(lines, i, j + 1, acc)

address_index(lines, i) == address_loop(lines, i, 1, <<>>)

\* city, state, zipcode from address_lines
parse_address(address_lines) ==
    LET address == str_strip(str_join(address_lines))
        m == addr_match(address)
        addr_parts == str_split_on(address, ",")
        sz_parts == str_split(str_strip(addr_parts[2]))
    IN  IF address_lines = <<>>
        THEN [city |-> NoData, state |-> NoData, zipcode |-> NoData]
        ELSE IF m.ok
        THEN [city |-> str_strip(m.g1), state |-> str_strip(m.g2),
              zipcode |-> str_strip(m.g3)]
        ELSE IF Len(addr_parts) >= 2
        THEN [city |-> str_strip(addr_parts[1]),
              state |-> IF Len(sz_parts) >= 2 THEN sz_parts[1] ELSE NoData,
              zipcode |-> IF Len(sz_parts) >= 2 THEN sz_parts[2] ELSE NoData]
        ELSE [city |-> NoData, state |-> NoData, zipcode |-> NoData]

search_start(i, address_line_count) == i + address_line_count + 1

\* the first j in range(from, to) whose line has the date+amount shape, else -1
RECURSIVE first_shape(_, _, _)
first_shape(lines, from, to) ==
    IF from >= to THEN -1
    ELSE IF Shape[Line(lines, from)] THEN from
    ELSE first_shape(lines, from + 1, to)

next_contribution_idx(lines, i, start) ==
    first_shape(lines, start, min(i + 20, Len(lines)))

\* search_end without the clamp at the next contribution
search_end_no_clamp(lines, i, start) == min(i + 15, Len(lines))

search_end(lines, i, start) ==
    LET nxt == next_contribution_idx(lines, i, start)
        e == min(i + 15, Len(lines))
    IN  IF nxt = -1 THEN e ELSE min(e, nxt)

\* whether the gathering loop keeps lines[j]
is_potential(lines, j, address_lines) ==
    LET test_line == Line(lines, j)
    IN  /\ ~Skip[test_line]
        /\ ~(address_lines # <<>> /\ test_line \in Range(address_lines))
        /\ ~DateAndAmount[test_line]
        /\ ~Pattern1[test_line]

\* for j in range(from, to): the indices of potential_data_lines
RECURSIVE potential_loop(_, _, _, _)
potential_loop(lines, from, to, address_lines) ==
    IF from >= to THEN <<>>
    ELSE (IF is_potential(lines, from, address_lines) THEN <<from>> ELSE <<>>)
         \o potential_loop(lines, from + 1, to, address_lines)

potential_index(lines, i, address_idx) ==
    LET start == search_start(i, Len(address_idx))
    IN  potential_loop(lines, start, search_end(lines, i, start),
                       Lines(lines, address_idx))

\* assign taking the employer from the last of several lines
assign_last(potential_data_lines) ==
    LET data_line == potential_data_lines[1]
        parts == str_split_max1(data_line)
    IN  IF Len(potential_data_lines) = 0
        THEN [occupation |-> NoData, employer |-> NoData]
        ELSE IF Len(potential_data_lines) = 1
        THEN IF Contains(data_line, <<" ">>)
             THEN IF Len(parts) = 2
                  THEN [occupation |-> parts[1], employer |-> parts[2]]
                  ELSE [occupation |-> NoData, employer |-> NoData]
             ELSE [occupation |-> data_line, employer |-> NoData]
        ELSE [occupation |-> potential_data_lines[1],
              employer |-> potential_data_lines[Len(potential_data_lines)]]

\* occupation and employer as assigned from potential_data_lines
assign(potential_data_lines) ==
    LET data_line == potential_data_lines[1]
        parts == str_split_max1(data_line)
    IN  IF Len(potential_data_lines) = 0
        THEN [occupation |-> NoData, employer |-> NoData]
        ELSE IF Len(potential_data_lines) = 1
        THEN IF Contains(data_line, <<" ">>)
             THEN IF Len(parts) = 2
                  THEN [occupation |-> parts[1], employer |-> parts[2]]
                  ELSE [occupation |-> NoData, employer |-> NoData]
             ELSE [occupation |-> data_line, employer |-> NoData]
        ELSE [occupation |-> potential_data_lines[1],
              employer |-> potential_data_lines[2]]

\* for pattern in HEADER_PATTERNS: if f: f = f.replace(pattern, "").strip()
RECURSIVE strip_headers(_, _)
strip_headers(f, k) ==
    IF k > Len(HEADER_PATTERNS) THEN f
    ELSE strip_headers(IF f # <<>>
                       THEN str_strip(str_remove(f, HEADER_PATTERNS[k]))
                       ELSE f, k + 1)

\* normalize without the list of parenthesis values
normalize_no_parens(f) == IF f = <<>> THEN NoData ELSE f

\* the last eight lines of "Final cleanup"
normalize(f) ==
    IF f \in {<<"(",")">>, <<"(">>, <<")">>, NoData} THEN NoData
    ELSE IF f = <<>> THEN NoData
    ELSE f

cleanup(f) == normalize(strip_headers(f, 1))

\* skip_amount counting the address lines without the anchor line
skip_amount_no_anchor(lines, i, address_line_count) ==
    LET dflt == address_line_count
        j == first_shape(lines, i + dflt, min(i + 10, Len(lines)))
    IN  IF j = -1 THEN dflt ELSE j - i

\* skip_amount looking ahead 10 lines from the default next cursor
skip_amount_from_default(lines, i, address_line_count) ==
    LET dflt == max(1, address_line_count + 1)
        j == first_shape(lines, i + dflt, min(i + dflt + 10, Len(lines)))
    IN  IF j = -1 THEN dflt ELSE j - i

\* skip_amount after the record at lines[i]
skip_amount(lines, i, address_line_count) ==
    LET dflt == max(1, address_line_count + 1)
        j == first_shape(lines, i + dflt, min(i + 10, Len(lines)))
    IN  IF j = -1 THEN dflt ELSE j - i

\* the dict appended to all_contributions for the anchor at lines[i]
contribution(lines, i, page_num) ==
    LET m == Anchor[Line(lines, i)]
        address_idx == address_index(lines, i)
        a == parse_address(Lines(lines, address_idx))
        oe == assign(Lines(lines, potential_index(lines, i, address_idx)))
    IN  [Date |-> m.g1,
         Name |-> str_strip(sub_id(m.g2)),
         City |-> a.city,
         State |-> a.state,
         Zip |-> a.zipcode,
         Amount |-> <<"$">> \o m.g3,
         Occupation |-> cleanup(oe.occupation),
         Employer |-> cleanup(oe.employer),
         Page |-> page_num + 1]

\* "Remove duplicates"
Key(contrib) == <<contrib.Date, contrib.Name, contrib.Amount>>

\* unique_loop without seen.add(key)
RECURSIVE unique_loop_no_add(_, _, _)
unique_loop_no_add(all, seen, unique) ==
    IF all = <<>> THEN unique
    ELSE LET contrib == all[1]
         IN  IF Key(contrib) \notin seen
             THEN unique_loop_no_add(From(all, 2), seen, Append(unique, contrib))
             ELSE unique_loop_no_add(From(all, 2), seen, unique)

RECURSIVE unique_loop(_, _, _)
unique_loop(all, seen, unique) ==
    IF all = <<>> THEN unique
    ELSE LET contrib == all[1]
         IN  IF Key(contrib) \notin seen
             THEN unique_loop(From(all, 2), seen \cup {Key(contrib)},
                              Append(unique, contrib))
             ELSE unique_loop(From(all, 2), seen, unique)

unique_contributions(all) == unique_loop(all, {}, <<>>)

\* "MONETARY POLITICAL CONTRIBUTION<<" ","o","r"," ">>Schedule A1" in text: always true
is_relevant_always(text) == TRUE

\* "MONETARY POLITICAL CONTRIBUTION<<" ","i","n"," ","t","e","x","t"," ","o","r"," ">>Schedule A1" in text
is_relevant(text) ==
    \E k \in DOMAIN text :
        Contains(text[k], L_Header) \/ Contains(text[k], L_Marker)

\* [line.strip() for line in text.split('\n') if line.strip()]
RECURSIVE clean_lines(_)
clean_lines(text) ==
    IF text = <<>> THEN <<>>
    ELSE (IF str_strip(text[1]) # <<>> THEN <<str_strip(text[1])>> ELSE <<>>)
         \o clean_lines(From(text, 2))

(***************************************************************************)
(* The documents.  A document is the sequence of its page texts.           *)
(***************************************************************************)
MaxFollow == 3
MaxPad == 15
MaxPages == 3

\* the sequences over S of length at most n
RECURSIVE SeqsUpTo(_, _)
SeqsUpTo(S, n) ==
    IF n = 0 THEN {<<>>}
    ELSE LET shorter == SeqsUpTo(S, n - 1)
         IN  shorter \cup {Append(s, x) : s \in {t \in shorter : Len(t) = n - 1},
                                          x \in S}

Followers ==
    {L_Street, L_CityStateZip, L_StateOnly, L_OccEmp, L_Engineer, L_Parens,
     L_Anchor2}

\* a marker line, an anchor and every run of at most MaxFollow following lines
RichPages ==
    {<<L_Marker, a>> \o f : a \in {L_Anchor, L_AnchorId},
                            f \in SeqsUpTo(Followers, MaxFollow)}

Pad(k, l) == [j \in 1..k |-> l]

\* an anchor, k equal lines and a tail, for the windows of 10, 15 and 20 lines
LongPages ==
    {<<L_Header, L_Anchor>> \o Pad(k, l) \o t :
        k \in 0..MaxPad,
        l \in {L_PageNo, L_Engineer},
        t \in {<<L_Anchor2>>, <<L_Teacher, L_ISD>>}}

ScenarioPages ==
    {<<L_Marker, L_Anchor, L_Tab>>,
     <<L_Marker, L_Anchor, L_Bare, L_Engineer>>,
     <<L_Marker, L_Anchor, L_Teacher, L_ISD, L_Engineer>>,
     <<L_Marker, L_Anchor, L_AnchorComma, L_Anchor2>>,
     <<L_Marker, L_AnchorComma, L_Engineer>>}

PageA == <<L_Marker, L_Anchor, L_Street, L_CityStateZip, L_OccEmp>>
PageRaw == <<<<" ","S","c","h","e","d","u","l","e"," ","A","1">>, <<>>, <<"\t","0","1","/","1","5","/","2","0","2","4"," ","J","o","h","n"," ","S","m","i","t","h"," ","$","5","0","0",".","0","0"," ">>, <<" ","E","n","g","i","n","e","e","r"," ">>>>
PageUngated == <<L_Anchor, L_Anchor2>>
PageEmpty == <<>>
PageTwo == <<L_Header, L_Anchor2, L_Anchor>>
SmallPages == {PageA, PageRaw, PageUngated, PageEmpty, PageTwo}

Documents ==
    {<<p>> : p \in RichPages \cup LongPages \cup ScenarioPages}
    \cup SeqsUpTo(SmallPages, MaxPages)

(***************************************************************************)
(* The run of extract_schedule_a1_from_pdf(pdf_file).                      *)
(***************************************************************************)
VARIABLES
    doc,                \* the page texts of pdf_file
    pc,                 \* "open", "page", "scan", "done"
    page_num,
    lines,
    i,
    all_contributions,
    last,               \* the last iteration of the scan loop at an anchor
    ret                 \* the returned pair

vars == <<doc, pc, page_num, lines, i, all_contributions, last, ret>>

NoIteration ==
    [i |-> -1, address |-> <<>>, start |-> -1, potential |-> <<>>, next |-> -1]

NotReturned == [unique |-> None, error |-> None]

total_pages == Len(doc)

Init ==
    /\ doc \in Documents
    /\ pc = "open"
    /\ page_num = 0
    /\ lines = <<>>
    /\ i = 0
    /\ all_contributions = <<>>
    /\ last = NoIteration
    /\ ret = NotReturned

\* return unique_contributions, None
normal_return(all) == [unique |-> Some(unique_contributions(all)), error |-> None]

\* an except clause that returns what was gathered so far
except_return_partial(all) ==
    [unique |-> Some(unique_contributions(all)), error |-> Some("Error processing PDF")]

\* except Exception as e: return None, f"Error processing PDF: {str(e)}"
except_return(all) == [unique |-> None, error |-> Some("Error processing PDF")]

\* pdf_file.getvalue(), pdfplumber.open(...), len(pdf.pages), the progress bar
Open ==
    /\ pc = "open"
    /\ pc' = "page"
    /\ UNCHANGED <<doc, page_num, lines, i, all_contributions, last, ret>>

\* if not text: continue
SkipEmptyPage ==
    /\ pc = "page"
    /\ page_num < total_pages
    /\ doc[page_num + 1] = <<>>
    /\ page_num' = page_num + 1
    /\ UNCHANGED <<doc, pc, lines, i, all_contributions, last, ret>>

\* the page is not relevant: the for loop goes to the next page
SkipIrrelevantPage ==
    /\ pc = "page"
    /\ page_num < total_pages
    /\ doc[page_num + 1] # <<>>
    /\ ~is_relevant(doc[page_num + 1])
    /\ page_num' = page_num + 1
    /\ UNCHANGED <<doc, pc, lines, i, all_contributions, last, ret>>

\* the page is relevant: lines = [...]; i = 0
StartScan ==
    /\ pc = "page"
    /\ page_num < total_pages
    /\ doc[page_num + 1] # <<>>
    /\ is_relevant(doc[page_num + 1])
    /\ lines' = clean_lines(doc[page_num + 1])
    /\ i' = 0
    /\ last' = NoIteration
    /\ pc' = "scan"
    /\ UNCHANGED <<doc, page_num, all_contributions, ret>>

\* one iteration of the while loop with date_match
ScanAnchor ==
    /\ pc = "scan"
    /\ i < Len(lines)
    /\ Anchor[Line(lines, i)].ok
    /\ LET address_idx == address_index(lines, i)
           address_line_count == Len(address_idx)
           skip == skip_amount(lines, i, address_line_count)
       IN  /\ all_contributions' =
                  Append(all_contributions, contribution(lines, i, page_num))
           /\ i' = i + skip
           /\ last' = [i |-> i,
                       address |-> address_idx,
                       start |-> search_start(i, address_line_count),
                       potential |-> potential_index(lines, i, address_idx),
                       next |-> i + skip]
    /\ UNCHANGED <<doc, pc, page_num, lines, ret>>

\* one iteration of the while loop without date_match: i += 1
ScanAdvance ==
    /\ pc = "scan"
    /\ i < Len(lines)
    /\ ~Anchor[Line(lines, i)].ok
    /\ i' = i + 1
    /\ last' = NoIteration
    /\ UNCHANGED <<doc, pc, page_num, lines, all_contributions, ret>>

\* the while loop ends: the for loop goes to the next page
EndPage ==
    /\ pc = "scan"
    /\ i >= Len(lines)
    /\ page_num' = page_num + 1
    /\ pc' = "page"
    /\ last' = NoIteration
    /\ UNCHANGED <<doc, lines, i, all_contributions, ret>>

\* after the last page: remove duplicates and return
Return ==
    /\ pc = "page"
    /\ page_num = total_pages
    /\ ret' = normal_return(all_contributions)
    /\ pc' = "done"
    /\ UNCHANGED <<doc, page_num, lines, i, all_contributions, last>>

\* an exception of pdfplumber or of the progress display, while the
\* document is opened or between two pages
Raise ==
    /\ pc \in {"open", "page"}
    /\ ret' = except_return(all_contributions)
    /\ pc' = "done"
    /\ UNCHANGED <<doc, page_num, lines, i, all_contributions, last>>

Next ==
    \/ Open
    \/ SkipEmptyPage
    \/ SkipIrrelevantPage
    \/ StartScan
    \/ ScanAnchor
    \/ ScanAdvance
    \/ EndPage
    \/ Return
    \/ Raise

Spec == Init /\ [][Next]_vars

(***************************************************************************)
(* The claims.                                                             *)
(***************************************************************************)
Fields == {"Date", "Name", "City", "State", "Zip", "Amount", "Occupation", "Employer"}

\* the record and the lines of the last iteration at an anchor
AtAnchor == pc = "scan" /\ last.i >= 0
LastRecord == all_contributions[Len(all_contributions)]
AddressBlock == Lines(lines, last.address)
Candidates == Lines(lines, last.potential)
Returned == pc = "done" /\ ret.error = None

\* C1: on the page of Scenario A the run returns exactly the record
\* {01/15/2024, John Smith, $500.00, Houston, TX, 77002, Attorney,
\* SelfEmployed}; and whenever the address block is a street fragment
\* followed by a "City, ST zip" fragment, the city of the record is the city
\* name of the second fragment alone.
C1_ScenarioA ==
    /\ (Returned /\ doc = <<PageA>>) =>
          /\ Len(ret.unique[1]) = 1
          /\ [f \in Fields |-> ret.unique[1][1][f]] =
                [Date |-> <<"0","1","/","1","5","/","2","0","2","4">>, Name |-> <<"J","o","h","n"," ","S","m","i","t","h">>,
                 City |-> <<"H","o","u","s","t","o","n">>, State |-> <<"T","X">>, Zip |-> <<"7","7","0","0","2">>,
                 Amount |-> <<"$","5","0","0",".","0","0">>, Occupation |-> <<"A","t","t","o","r","n","e","y">>,
                 Employer |-> <<"S","e","l","f","E","m","p","l","o","y","e","d">>]
    /\ (/\ AtAnchor
        /\ Len(AddressBlock) = 2
        /\ addr_pattern2(AddressBlock[1])
        /\ CszAt(AddressBlock[2], RunEnd(AddressBlock[2], 1, AlphaSpace)).ok) =>
          LastRecord.City =
              str_strip(Upto(AddressBlock[2],
                             RunEnd(AddressBlock[2], 1, AlphaSpace) - 1))

\* C2: the returned list holds, for every distinct (date, contributorName,
\* amount) of the raw records, the first raw record with that key and no
\* other record, in the order of the raw sequence.
C2Key(r) == <<r.Date, r.Name, r.Amount>>
C2First(r) ==
    Min({j \in DOMAIN all_contributions : C2Key(all_contributions[j]) = C2Key(r)})
C2_Dedup ==
    Returned =>
        LET unique == ret.unique[1]
        IN  /\ \A a \in DOMAIN unique :
                  /\ \E j \in DOMAIN all_contributions :
                        C2Key(all_contributions[j]) = C2Key(unique[a])
                  /\ unique[a] = all_contributions[C2First(unique[a])]
            /\ \A a, b \in DOMAIN unique :
                  a < b => C2First(unique[a]) < C2First(unique[b])
            /\ \A j \in DOMAIN all_contributions :
                  \E a \in DOMAIN unique :
                      C2Key(unique[a]) = C2Key(all_contributions[j])

\* two raw records of one key, from different pages and with different
\* cities, were collapsed
C2_Witness ==
    /\ Returned
    /\ Len(ret.unique[1]) < Len(all_contributions)
    /\ \E j, k \in DOMAIN all_contributions :
          /\ j < k
          /\ C2Key(all_contributions[j]) = C2Key(all_contributions[k])
          /\ all_contributions[j].City # all_contributions[k].City
          /\ all_contributions[j].Page # all_contributions[k].Page

\* C3: no field of an emitted record is the empty string.
C3_NoEmptyField ==
    \A k \in DOMAIN all_contributions :
        \A f \in Fields : all_contributions[k][f] # <<>>

\* C4: every record comes from a page whose text holds one of the two
\* markers; a run over pages without markers returns no record.
C4HasMarker(text) ==
    \E k \in DOMAIN text :
        \/ Contains(text[k], <<"M","O","N","E","T","A","R","Y"," ","P","O","L","I","T","I","C","A","L"," ","C","O","N","T","R","I","B","U","T","I","O","N","S">>)
        \/ Contains(text[k], <<"S","c","h","e","d","u","l","e"," ","A","1">>)
C4_PageGating ==
    /\ \A k \in DOMAIN all_contributions :
          C4HasMarker(doc[all_contributions[k].Page])
    /\ (Returned /\ \A p \in DOMAIN doc : ~C4HasMarker(doc[p])) =>
          ret.unique[1] = <<>>

\* a page without marker that holds anchor lines was passed, next to a page
\* that gave records
C4_Witness ==
    /\ Returned
    /\ all_contributions # <<>>
    /\ \E p \in DOMAIN doc :
          /\ ~C4HasMarker(doc[p])
          /\ \E k \in DOMAIN doc[p] : date_match(doc[p][k]).ok

\* C5: when the line after the anchor is not an address fragment, the
\* address block is empty, city, state and zip are "No Data", and that line
\* is the first line of the attribute window.
C5_StopAtFirstNonFragment ==
    (/\ AtAnchor
     /\ last.i + 1 < Len(lines)
     /\ ~is_address_line(Line(lines, last.i + 1))) =>
        /\ last.address = <<>>
        /\ LastRecord.City = NoData
        /\ LastRecord.State = NoData
        /\ LastRecord.Zip = NoData
        /\ last.start = last.i + 1

\* C6: with no candidate line both fields are "No Data"; with one candidate
\* without whitespace the occupation is that line and the employer is
\* "No Data"; with one candidate with whitespace the occupation is the text
\* before the first whitespace run and the employer the text after it; with
\* two or more candidates the occupation is candidate 0 and the employer is
\* candidate 1.
C6Before(s) == Upto(s, RunEndNot(s, 1, Space) - 1)
C6After(s) == From(s, RunEnd(s, RunEndNot(s, 1, Space), Space))
C6_ResolutionPolicy ==
    AtAnchor =>
        LET P == Candidates
            occupation == LastRecord.Occupation
            employer == LastRecord.Employer
        IN  /\ Len(P) = 0 => occupation = NoData /\ employer = NoData
            /\ (Len(P) = 1 /\ \A k \in DOMAIN P[1] : P[1][k] \notin Space) =>
                  occupation = P[1] /\ employer = NoData
            /\ (Len(P) = 1 /\ \E k \in DOMAIN P[1] : P[1][k] \in Space) =>
                  occupation = C6Before(P[1]) /\ employer = C6After(P[1])
            /\ Len(P) >= 2 => occupation = P[1] /\ employer = P[2]

\* C6 as amended: the line is split when it holds a space character (not any
\* whitespace), and a field that comes out as "()", "(" or ")" is "No Data".
C6Normal(f) == IF f \in {<<"(",")">>, <<"(">>, <<")">>} THEN NoData ELSE f
C6_ResolutionPolicyAmended ==
    AtAnchor =>
        LET P == Candidates
            occupation == LastRecord.Occupation
            employer == LastRecord.Employer
        IN  /\ Len(P) = 0 => occupation = NoData /\ employer = NoData
            /\ (Len(P) = 1 /\ \A k \in DOMAIN P[1] : P[1][k] # " ") =>
                  occupation = C6Normal(P[1]) /\ employer = NoData
            /\ (Len(P) = 1 /\ \E k \in DOMAIN P[1] : P[1][k] = " ") =>
                  /\ occupation = C6Normal(C6Before(P[1]))
                  /\ employer = C6Normal(C6After(P[1]))
            /\ Len(P) >= 2 =>
                  occupation = C6Normal(P[1]) /\ employer = C6Normal(P[2])

\* three candidates, the third ignored, the first one "()"
C6_Witness ==
    /\ AtAnchor
    /\ Len(Candidates) >= 3
    /\ Candidates[1] = L_Parens
    /\ Candidates[3] # Candidates[2]
    /\ LastRecord.Occupation = NoData
    /\ LastRecord.Employer = Candidates[2]

\* C7: occupation and employer of a record are never "", "()", "(" or ")";
\* without a candidate line both are "No Data".
C7Reduced == {<<>>, <<"(",")">>, <<"(">>, <<")">>}
C7_NeverEmpty ==
    /\ \A k \in DOMAIN all_contributions :
          /\ all_contributions[k].Occupation \notin C7Reduced
          /\ all_contributions[k].Employer \notin C7Reduced
    /\ (AtAnchor /\ Candidates = <<>>) =>
          LastRecord.Occupation = NoData /\ LastRecord.Employer = NoData

\* the employer was taken from the line "()"
C7_Witness ==
    /\ AtAnchor
    /\ Len(Candidates) >= 2
    /\ Candidates[2] = L_Parens
    /\ LastRecord.Employer = NoData
    /\ LastRecord.Occupation # NoData

C9Default == last.i + max(1, Len(last.address) + 1)
C9Cursor(lookahead) ==
    IF lookahead = {} THEN C9Default ELSE Min(lookahead)
C9_CursorTenFromDefault ==
    AtAnchor =>
        i = C9Cursor({j \in C9Default..min(C9Default + 9, Len(lines) - 1) :
                         next_date_shape(Line(lines, j))})

\* C9 as amended: the lookahead covers the lines p .. anchorIndex+9.
C9_CursorTenFromAnchor ==
    AtAnchor =>
        i = C9Cursor({j \in C9Default..min(last.i + 9, Len(lines) - 1) :
                         next_date_shape(Line(lines, j))})

\* the lookahead moved the cursor beyond the default next cursor
C9_Witness == AtAnchor /\ i > C9Default

PageDone == pc = "scan" /\ i >= Len(lines)
PageRecords == SelectSeq(all_contributions, LAMBDA r : r.Page = page_num + 1)

\* C11: every line of a scanned page that matches the anchor pattern gives
\* one raw record; the cursor never jumps over an anchor line; no address
\* line of an anchor lies beyond the next anchor line.
RECURSIVE C11AnchorRecords(_)
C11AnchorRecords(k) ==
    IF k >= Len(lines) THEN <<>>
    ELSE (IF date_match(Line(lines, k)).ok
          THEN <<contribution(lines, k, page_num)>> ELSE <<>>)
         \o C11AnchorRecords(k + 1)
C11_NoAnchorLost ==
    /\ PageDone => PageRecords = C11AnchorRecords(0)
    /\ AtAnchor =>
          \A k \in (last.i + 1)..(i - 1) : ~date_match(Line(lines, k)).ok
    /\ AtAnchor =>
          \A x \in DOMAIN last.address :
              \A k \in (last.i + 1)..(last.address[x] - 1) :
                  ~date_match(Line(lines, k)).ok

\* C12: every iteration of the scan loop moves the cursor forward, by exactly
\* 1 without a record when the line is no anchor and by at least 1 with one
\* record when it is; the cursor never passes the end of the page, and a page
\* has given at most as many records as the cursor has passed lines.
C12_CursorIncreases ==
    /\ [](pc = "scan" => i <= Len(lines) /\ Len(PageRecords) <= i)
    /\ [][(pc = "scan" /\ i < Len(lines)) =>
            /\ i' > i
            /\ i' <= Len(lines)
            /\ ~date_match(Line(lines, i)).ok =>
                  i' = i + 1 /\ all_contributions' = all_contributions
            /\ date_match(Line(lines, i)).ok =>
                  Len(all_contributions') = Len(all_contributions) + 1]_vars

\* the refinement jump moved the cursor by three lines or more, to an anchor
C12_Witness ==
    /\ AtAnchor
    /\ last.address = <<>>
    /\ i >= last.i + 3
    /\ i < Len(lines)
    /\ date_match(Line(lines, i)).ok

\* C13: the scan gives the records of a scan that always advances to the
\* default next cursor anchorIndex + max(1, addrCount + 1), and every line a
\* lookahead jump passes over fails the anchor pattern.
RECURSIVE C13DefaultScan(_)
C13DefaultScan(k) ==
    IF k >= Len(lines) THEN <<>>
    ELSE IF date_match(Line(lines, k)).ok
    THEN <<contribution(lines, k, page_num)>>
         \o C13DefaultScan(k + max(1, Len(address_index(lines, k)) + 1))
    ELSE C13DefaultScan(k + 1)
C13_RefinementPreserving ==
    /\ PageDone => PageRecords = C13DefaultScan(0)
    /\ AtAnchor =>
          \A k \in C9Default..(i - 1) : ~date_match(Line(lines, k)).ok

====
